---- MODULE Spec2Model ----
(***************************************************************************)
(* Wordle streak tracker: the message parser, the SQLite store (users,     *)
(* streaks, results, sqlite_sequence) and the operations that write it:    *)
(* WordleSQLiteTracker.add_streak_data / clear_database and                *)
(* WordleDatabaseManager.delete_day / get_day_details; and the readers:    *)
(* the statistics of WordleStatsCalculator, the day viewer show_day_data   *)
(* and diagnose_database.                                                  *)
(*                                                                         *)
(* Spec runs the writers statement by statement with faults; SpecParse     *)
(* runs parse_message alone over a set of texts; SpecStats runs the        *)
(* statistics over a set of stores; SpecCalls runs whole calls in turn.    *)
(*                                                                         *)
(* A message is a sequence of lexemes.  Single characters are one-letter   *)
(* strings; the literals the regular expressions look for (" day streak",  *)
(* "/6:", the crown glyph of the pattern) are one lexeme each.             *)
(***************************************************************************)
EXTENDS Integers, Sequences, FiniteSets, TLC

(* ------------------------------ bounds -------------------------------- *)
\* largest value sqlite_sequence may hold for the streaks table: every
\* add_streak_data that commits consumes one id of that table
MaxStreakSeq == 3
\* largest value of the clock that stamps imported_at / first_seen
MaxTime == 1

(* ------------------------------ lexemes ------------------------------- *)
DAY_STREAK == " day streak"
DAY_STREAK_CAP == " day Streak"
SIX == "/6:"
\* the four-character glyph literal of score_pattern
CROWN == "<crown>"
\* U+1F451, the crown emoji of a chat message
REAL_CROWN == "<U+1F451>"

Digits == {"0", "1", "2", "3", "4", "5", "6", "7", "8", "9"}
ScoreChars == {"1", "2", "3", "4", "5", "6", "X"}
Upper == {"A", "B", "C", "D", "E", "F", "G", "H", "I", "J", "K", "L", "M",
          "N", "O", "P", "Q", "R", "S", "T", "U", "V", "W", "X", "Y", "Z"}
Spaces == {" ", "\n"}
Punct == {",", ";", ".", "!", "?"}

(* ------------------------------ helpers ------------------------------- *)
Min(S) == CHOOSE x \in S : \A y \in S : x <= y
Max(S) == CHOOSE x \in S : \A y \in S : x >= y

DigitVal(c) ==
    CASE c = "0" -> 0 [] c = "1" -> 1 [] c = "2" -> 2 [] c = "3" -> 3
      [] c = "4" -> 4 [] c = "5" -> 5 [] c = "6" -> 6 [] c = "7" -> 7
      [] c = "8" -> 8 [] c = "9" -> 9

RECURSIVE int(_)
int(ds) ==
    IF ds = <<>> THEN 0
    ELSE 10 * int(SubSeq(ds, 1, Len(ds) - 1)) + DigitVal(ds[Len(ds)])

\* `$` without re.MULTILINE: the end of the text, or just before a final newline
AtEnd(s, k) == k = Len(s) + 1 \/ (k = Len(s) /\ s[k] = "\n")

\* first position >= p that does not hold whitespace (greedy \s*)
SkipSpaces(s, p) == Min({k \in p..(Len(s) + 1) : k = Len(s) + 1 \/ s[k] \notin Spaces})

\* str.strip()
strip(s) ==
    IF \A k \in 1..Len(s) : s[k] \in Spaces THEN <<>>
    ELSE LET a == Min({k \in 1..Len(s) : s[k] \notin Spaces})
             b == Min({k \in 1..Len(s) : \A j \in (k + 1)..Len(s) : s[j] \in Spaces})
         IN  SubSeq(s, a, b)

\* re.sub(r'[,;.!?]+$', '', s)
StripTrailingPunct(s) ==
    LET b == Min({k \in 0..Len(s) : \A j \in (k + 1)..Len(s) : s[j] \in Punct})
    IN  SubSeq(s, 1, b)

\* str.split('@')
RECURSIVE split(_)
split(s) ==
    IF \A k \in 1..Len(s) : s[k] # "@" THEN <<s>>
    ELSE LET k == Min({j \in 1..Len(s) : s[j] = "@"})
         IN  <<SubSeq(s, 1, k - 1)>> \o split(SubSeq(s, k + 1, Len(s)))

(* --------------------------- parse_message ---------------------------- *)
\* the same search with re.IGNORECASE on the word "streak"
StreakMarks_anycase(message) ==
    {j \in 2..Len(message) : /\ message[j] \in {DAY_STREAK, " day Streak", " day STREAK"}
                             /\ message[j - 1] \in Digits}

\* re.search(r'(\d+) day streak', message): positions of a " day streak"
\* that directly follows a digit
StreakMarks(message) ==
    {j \in 2..Len(message) : message[j] = DAY_STREAK /\ message[j - 1] \in Digits}

streak_match(message) == StreakMarks(message) # {}

streak_day(message) ==
    LET j == Min(StreakMarks(message))
        i == Min({k \in 1..(j - 1) : \A n \in k..(j - 1) : message[n] \in Digits})
    IN  int(SubSeq(message, i, j - 1))

\* the lookahead (?=(?:[1-6X]/6:|$)) of score_pattern at position k
ScoreAhead(s, k) ==
    \/ AtEnd(s, k)
    \/ k + 1 <= Len(s) /\ s[k] \in ScoreChars /\ s[k + 1] = SIX

\* one attempt of score_pattern at position p
ScoreMatchAt(s, p) ==
    LET crown == s[p] = CROWN
        q == IF crown THEN SkipSpaces(s, p + 1) ELSE p
        head == q + 1 <= Len(s) /\ s[q] \in ScoreChars /\ s[q + 1] = SIX
        r == SkipSpaces(s, q + 2)
        e == Min({k \in r..(Len(s) + 1) : ScoreAhead(s, k)})
    IN  IF head /\ \A k \in r..(e - 1) : s[k] # CROWN
        THEN [ok |-> TRUE, crown |-> crown, score |-> s[q],
              usernames |-> SubSeq(s, r, e - 1), end |-> e]
        ELSE [ok |-> FALSE]

\* re.findall(score_pattern, message), scanning from position p
RECURSIVE score_lines(_, _)
score_lines(s, p) ==
    IF p > Len(s) THEN <<>>
    ELSE LET m == ScoreMatchAt(s, p)
         IN  IF m.ok THEN <<m>> \o score_lines(s, m.end)
             ELSE score_lines(s, p + 1)

\* re.match(r'([^@]*?)(?=@|\d/6:|[A-Z]/6:|$)', part).group(1).strip()
raw_username(part) ==
    LET stop(k) == \/ AtEnd(part, k)
                   \/ k + 1 <= Len(part) /\ part[k] \in (Digits \cup Upper)
                        /\ part[k + 1] = SIX
        e == Min({k \in 1..(Len(part) + 1) : stop(k)})
    IN  strip(SubSeq(part, 1, e - 1))

\* a trimming that ends with the punctuation removal
clean_user_unstripped(part) == StripTrailingPunct(raw_username(part))

\* lines 84-93
clean_user(part) == strip(StripTrailingPunct(raw_username(part)))

\* the results of the usernames of one score line, from part n on
RECURSIVE PartResults(_, _, _)
PartResults(line, parts, n) ==
    IF n > Len(parts) THEN <<>>
    ELSE LET u == clean_user(parts[n])
         IN  (IF u # <<>>
              THEN <<[username |-> u, score |-> line.score, is_winner |-> line.crown]>>
              ELSE <<>>) \o PartResults(line, parts, n + 1)

RECURSIVE LineResults(_, _)
LineResults(lines, n) ==
    IF n > Len(lines) THEN <<>>
    ELSE PartResults(lines[n], split(lines[n].usernames), 2) \o LineResults(lines, n + 1)

\* requires streak_match(message); otherwise the code raises ValueError
parse_message(message) ==
    [day |-> streak_day(message),
     results |-> LineResults(score_lines(message, 1), 1)]

(* ------------------------------ messages ------------------------------ *)
Header(d) == <<d, DAY_STREAK>>

\* the messages the callers submit: a crowned block of two users; a block of
\* two users and a second block that names the first user again; a block
\* whose username carries trailing punctuation; a day marker alone; and
\* texts in which parse_message finds no day marker
Marked ==
    { Header("1") \o <<"\n", CROWN, " ", "3", SIX, " ", "@", "A", " ", "@", "B">>,
      Header("1") \o <<" ", "3", SIX, " ", "@", "A", "@", "B", " ", "X", SIX, " ", "@", "A", "\n">>,
      Header("2") \o <<" ", "X", SIX, " ", "@", "b", ",">>,
      Header("2") }

Unmarked ==
    { <<"3", SIX, " ", "@", "A">>,
      <<"1", DAY_STREAK_CAP, " ", "3", SIX, " ", "@", "A">>,
      <<DAY_STREAK, " ", "X", SIX, " ", "@", "B">> }

Messages == Marked \cup Unmarked
\* arguments of delete_day: the days of the messages and one never ingested
DayArgs == {1, 2, 3}

(* ------------------------------ the store ----------------------------- *)
VARIABLES
    db,        \* the database as the open connection sees it
    journal,   \* the content to restore on rollback, NoTx outside a transaction
    now,       \* CURRENT_TIMESTAMP
    pc,        \* the statement the running call is at; "done" when it has
               \* returned or raised; "idle" when its caller is ready for the next
    locals,    \* the local variables of the running call
    ret,       \* what the finished call gave its caller
    pre,       \* db when the running call started
    prev       \* the call before the running one, if it was a successful add_streak_data

vars == <<db, journal, now, pc, locals, ret, pre, prev>>

None == "None"

\* init_database: three empty tables, no id used
EmptyDb ==
    [users |-> {}, streaks |-> {}, results |-> {},
     seq |-> [users |-> 0, streaks |-> 0, results |-> 0]]

\* no transaction is open
NoTx == [open |-> FALSE, saved |-> EmptyDb]

NoLocals ==
    [message |-> <<>>, parsed_data |-> [day |-> 0, results |-> <<>>], n |-> 0,
     user_id |-> 0, day |-> 0]

\* a transaction starts (the sqlite3 module opens one before the first
\* INSERT/DELETE of a connection; BEGIN TRANSACTION opens one explicitly)
Begin(j, d) == IF j.open THEN j ELSE [open |-> TRUE, saved |-> d]

\* a rollback that restores nothing
Rollback_keeps(j, d) == d

\* conn.rollback() / ROLLBACK / closing a connection with an open transaction
Rollback(j, d) == IF j.open THEN j.saved ELSE d

\* a plain INSERT of the day row where no uniqueness is enforced
InsertStreak_always(d, day, t) ==
    LET id == d.seq.streaks + 1
    IN  [d EXCEPT !.seq.streaks = id,
                  !.streaks = @ \cup {[id |-> id, day |-> day, imported_at |-> t]}]

\* an upsert of the day row that refreshes imported_at
InsertStreak_touch(d, day, t) ==
    LET id == d.seq.streaks + 1
    IN  [d EXCEPT !.seq.streaks = id,
                  !.streaks = IF \E s \in @ : s.day = day
                              THEN {[s EXCEPT !.imported_at = IF s.day = day THEN t ELSE @] : s \in @}
                              ELSE @ \cup {[id |-> id, day |-> day, imported_at |-> t]}]

\* an ingestion that stores no day row
InsertStreak_none(d, day, t) == d

\* INSERT OR REPLACE of the day row
InsertStreak_replace(d, day, t) ==
    LET id == d.seq.streaks + 1
    IN  [d EXCEPT !.seq.streaks = id,
                  !.streaks = {s \in @ : s.day # day}
                              \cup {[id |-> id, day |-> day, imported_at |-> t]}]

\* INSERT OR IGNORE INTO streaks (day) VALUES (?)
\* (AUTOINCREMENT: the id is taken from sqlite_sequence even when the row is ignored)
InsertOrIgnoreStreak(d, day, t) ==
    LET id == d.seq.streaks + 1
    IN  [d EXCEPT !.seq.streaks = id,
                  !.streaks = IF \E s \in d.streaks : s.day = day THEN @
                              ELSE @ \cup {[id |-> id, day |-> day, imported_at |-> t]}]

\* an upsert of the user row that replaces the row of a known username
InsertUser_replace(d, username, t) ==
    LET id == d.seq.users + 1
    IN  [d EXCEPT !.seq.users = id,
                  !.users = {u \in @ : u.username # username}
                            \cup {[id |-> id, username |-> username, first_seen |-> t]}]

\* INSERT OR IGNORE INTO users (username) VALUES (?)
InsertOrIgnoreUser(d, username, t) ==
    LET id == d.seq.users + 1
    IN  [d EXCEPT !.seq.users = id,
                  !.users = IF \E u \in d.users : u.username = username THEN @
                            ELSE @ \cup {[id |-> id, username |-> username, first_seen |-> t]}]

\* a lookup that returns the id of the newest user row
SelectUserId_newest(d, username) == Max({u.id : u \in d.users})

\* SELECT id FROM users WHERE username = ?
SelectUserId(d, username) == (CHOOSE u \in d.users : u.username = username).id

\* INSERT OR IGNORE of the result row
InsertResult_ignore(d, day, user_id, score, is_winner) ==
    LET id == d.seq.results + 1
    IN  [d EXCEPT !.seq.results = id,
                  !.results = IF \E r \in @ : r.streak_day = day /\ r.user_id = user_id
                              THEN @
                              ELSE @ \cup {[id |-> id, streak_day |-> day, user_id |-> user_id,
                                            score |-> score, is_winner |-> is_winner]}]

\* INSERT OR REPLACE INTO results (streak_day, user_id, score, is_winner)
InsertOrReplaceResult(d, day, user_id, score, is_winner) ==
    LET id == d.seq.results + 1
    IN  [d EXCEPT !.seq.results = id,
                  !.results = {r \in @ : ~(r.streak_day = day /\ r.user_id = user_id)}
                              \cup {[id |-> id, streak_day |-> day, user_id |-> user_id,
                                     score |-> score, is_winner |-> is_winner]}]

\* a count over the whole results table
CountResults_all(d, day) == Cardinality(d.results)

\* SELECT COUNT(*) FROM results WHERE streak_day = ?
CountResults(d, day) == Cardinality({r \in d.results : r.streak_day = day})

\* a delete_day that leaves the results
DeleteResults_none(d, day) == d

\* DELETE FROM results WHERE streak_day = ?
DeleteResultsOfDay(d, day) == [d EXCEPT !.results = {r \in @ : r.streak_day # day}]

\* a delete that empties the streaks table
DeleteStreak_all(d, day) == [d EXCEPT !.streaks = {}]

\* DELETE FROM streaks WHERE day = ?
DeleteStreak(d, day) == [d EXCEPT !.streaks = {s \in @ : s.day # day}]

\* the (day, username, score, winner) rows a reader joins out of the store
ResultView(d) ==
    {[day |-> r.streak_day, username |-> u.username, score |-> r.score,
      is_winner |-> r.is_winner] : <<r, u>> \in {x \in d.results \X d.users : x[1].user_id = x[2].id}}

StoreView(d) ==
    [usernames |-> {u.username : u \in d.users},
     streaks |-> {[day |-> s.day, imported_at |-> s.imported_at] : s \in d.streaks},
     results |-> ResultView(d)]

NoRet == [op |-> None, status |-> None]

NoPrev == [valid |-> FALSE, message |-> <<>>, view |-> StoreView(EmptyDb)]

Init ==
    /\ db = EmptyDb
    /\ journal = NoTx
    /\ now = 0
    /\ pc = "idle"
    /\ locals = NoLocals
    /\ ret = NoRet
    /\ pre = EmptyDb
    /\ prev = NoPrev

\* the clock advances
Tick ==
    /\ now < MaxTime
    /\ now' = now + 1
    /\ UNCHANGED <<db, journal, pc, locals, ret, pre, prev>>

\* the caller takes the result or the exception of the finished call and
\* turns to its next input (main, lines 347-362; interactive_mode;
\* clear_database.main)
caller_continue ==
    /\ pc = "done"
    /\ pc' = "idle"
    /\ prev' = IF ret.op = "add_streak_data" /\ ret.status = "ok"
               THEN [valid |-> TRUE, message |-> ret.message, view |-> StoreView(db)]
               ELSE NoPrev
    /\ ret' = NoRet
    /\ pre' = EmptyDb
    /\ UNCHANGED <<db, journal, now, locals>>

(* --------------------------- add_streak_data -------------------------- *)
\* a missing day marker taken as day 0
add_streak_data_day0(message) ==
    /\ pc = "idle"
    /\ db.seq.streaks < MaxStreakSeq
    /\ pre' = db
    /\ pc' = "insert_streak"
    /\ locals' = [NoLocals EXCEPT !.message = message,
                                  !.parsed_data =
                                      [day |-> IF streak_match(message)
                                               THEN streak_day(message) ELSE 0,
                                       results |-> LineResults(score_lines(message, 1), 1)],
                                  !.n = 1]
    /\ UNCHANGED <<db, journal, now, prev, ret>>

\* lines 119-123: parse, which may raise ValueError, then connect
add_streak_data(message) ==
    /\ pc = "idle"
    /\ db.seq.streaks < MaxStreakSeq
    /\ pre' = db
    /\ IF streak_match(message)
       THEN /\ pc' = "insert_streak"
            /\ locals' = [NoLocals EXCEPT !.message = message,
                                          !.parsed_data = parse_message(message), !.n = 1]
            /\ UNCHANGED ret
       ELSE /\ pc' = "done"
            /\ ret' = [op |-> "add_streak_data", status |-> "ValueError", message |-> message]
            /\ UNCHANGED locals
    /\ UNCHANGED <<db, journal, now, prev>>

\* the day row committed on its own, before the results
add_insert_streak_committed ==
    /\ pc = "insert_streak"
    /\ journal' = NoTx
    /\ db' = InsertOrIgnoreStreak(db, locals.parsed_data.day, now)
    /\ pc' = IF Len(locals.parsed_data.results) = 0 THEN "commit" ELSE "insert_user"
    /\ UNCHANGED <<now, locals, ret, pre, prev>>

\* line 127
add_insert_streak ==
    /\ pc = "insert_streak"
    /\ journal' = Begin(journal, db)
    /\ db' = InsertOrIgnoreStreak(db, locals.parsed_data.day, now)
    /\ pc' = IF Len(locals.parsed_data.results) = 0 THEN "commit" ELSE "insert_user"
    /\ UNCHANGED <<now, locals, ret, pre, prev>>

\* line 111, for result n
add_user_insert ==
    /\ pc = "insert_user"
    /\ journal' = Begin(journal, db)
    /\ db' = InsertOrIgnoreUser(db, locals.parsed_data.results[locals.n].username, now)
    /\ pc' = "select_user"
    /\ UNCHANGED <<now, locals, ret, pre, prev>>

\* lines 112-115
add_user_select ==
    /\ pc = "select_user"
    /\ locals' = [locals EXCEPT !.user_id =
                      SelectUserId(db, locals.parsed_data.results[locals.n].username)]
    /\ pc' = "insert_result"
    /\ UNCHANGED <<db, journal, now, ret, pre, prev>>

\* lines 134-137, then the next turn of the loop
add_insert_result ==
    /\ pc = "insert_result"
    /\ LET result == locals.parsed_data.results[locals.n]
       IN  db' = InsertOrReplaceResult(db, locals.parsed_data.day, locals.user_id,
                                       result.score, result.is_winner)
    /\ journal' = Begin(journal, db)
    /\ locals' = [locals EXCEPT !.n = @ + 1]
    /\ pc' = IF locals.n < Len(locals.parsed_data.results) THEN "insert_user" ELSE "commit"
    /\ UNCHANGED <<now, ret, pre, prev>>

\* line 139
add_commit ==
    /\ pc = "commit"
    /\ journal' = NoTx
    /\ pc' = "count"
    /\ UNCHANGED <<db, now, locals, ret, pre, prev>>

\* lines 142-149 and the finally clause
add_return ==
    /\ pc = "count"
    /\ ret' = [op |-> "add_streak_data", status |-> "ok", message |-> locals.message,
               day |-> locals.parsed_data.day,
               results_added |-> CountResults(db, locals.parsed_data.day),
               users_in_day |-> [k \in 1..Len(locals.parsed_data.results) |->
                                    locals.parsed_data.results[k].username]]
    /\ pc' = "done"
    /\ locals' = NoLocals
    /\ UNCHANGED <<db, journal, now, pre, prev>>

AddTry == {"insert_streak", "insert_user", "select_user", "insert_result", "commit", "count"}

\* lines 151-155: the statement at pc raises; roll back and re-raise
add_except ==
    /\ pc \in AddTry
    /\ db' = Rollback(journal, db)
    /\ journal' = NoTx
    /\ ret' = [op |-> "add_streak_data", status |-> "error", message |-> locals.message,
               at |-> pc, n |-> locals.n]
    /\ pc' = "done"
    /\ locals' = NoLocals
    /\ UNCHANGED <<now, pre, prev>>

(* ---------------------------- get_day_details ------------------------- *)
\* get_day_details(day) is None
NotFound(d, day) == ~\E s \in d.streaks : s.day = day

\* lines 204-228: the dictionary built for a stored day (the rows are kept
\* as a set; their ORDER BY username is not modelled)
DayDetails(d, day) ==
    LET streak_data == CHOOSE s \in d.streaks : s.day = day
        results == {[username |-> r.username, score |-> r.score, is_winner |-> r.is_winner] :
                       r \in {x \in ResultView(d) : x.day = day}}
    IN  [day |-> streak_data.day, imported_at |-> streak_data.imported_at,
         participants |-> Cardinality(results), results |-> results]

\* a lookup that indexes the fetched row without testing it for None
get_day_details_unchecked(day) ==
    /\ pc = "idle"
    /\ pre' = db
    /\ pc' = "done"
    /\ ret' = IF NotFound(db, day)
              THEN [op |-> "get_day_details", status |-> "error", day |-> day]
              ELSE [op |-> "get_day_details", status |-> "found", day |-> day,
                    details |-> DayDetails(db, day)]
    /\ UNCHANGED <<db, journal, now, locals, prev>>

\* lines 191-228
get_day_details(day) ==
    /\ pc = "idle"
    /\ pre' = db
    /\ pc' = "done"
    /\ ret' = IF NotFound(db, day)
              THEN [op |-> "get_day_details", status |-> "None", day |-> day]
              ELSE [op |-> "get_day_details", status |-> "found", day |-> day,
                    details |-> DayDetails(db, day)]
    /\ UNCHANGED <<db, journal, now, locals, prev>>

(* ------------------------------ delete_day ---------------------------- *)

\* lines 232-258: look the day up, preview, ask for confirmation, connect
delete_day(day, confirm, confirmation) ==
    /\ pc = "idle"
    /\ pre' = db
    /\ IF NotFound(db, day) \/ (~confirm /\ confirmation # "DELETE")
       THEN /\ pc' = "done"
            /\ ret' = [op |-> "delete_day", status |-> FALSE, day |-> day,
                       at |-> IF NotFound(db, day) THEN "not_found" ELSE "cancelled"]
            /\ UNCHANGED locals
       ELSE /\ pc' = "del_begin"
            /\ locals' = [NoLocals EXCEPT !.day = day]
            /\ UNCHANGED ret
    /\ UNCHANGED <<db, journal, now, prev>>

\* line 261
del_begin ==
    /\ pc = "del_begin"
    /\ journal' = Begin(journal, db)
    /\ pc' = "del_results"
    /\ UNCHANGED <<db, now, locals, ret, pre, prev>>

\* lines 264-265
del_results ==
    /\ pc = "del_results"
    /\ db' = DeleteResultsOfDay(db, locals.day)
    /\ pc' = "del_streak"
    /\ UNCHANGED <<journal, now, locals, ret, pre, prev>>

\* lines 268-269
del_streak ==
    /\ pc = "del_streak"
    /\ db' = DeleteStreak(db, locals.day)
    /\ pc' = "del_commit"
    /\ UNCHANGED <<journal, now, locals, ret, pre, prev>>

\* lines 272-279
del_commit ==
    /\ pc = "del_commit"
    /\ journal' = NoTx
    /\ ret' = [op |-> "delete_day", status |-> TRUE, day |-> locals.day, at |-> "done"]
    /\ pc' = "done"
    /\ locals' = NoLocals
    /\ UNCHANGED <<db, now, pre, prev>>

DelTry == {"del_begin", "del_results", "del_streak", "del_commit"}

\* lines 281-288: the statement at pc raises; ROLLBACK, return False
del_except ==
    /\ pc \in DelTry
    /\ db' = Rollback(journal, db)
    /\ journal' = NoTx
    /\ ret' = [op |-> "delete_day", status |-> FALSE, day |-> locals.day, at |-> pc]
    /\ pc' = "done"
    /\ locals' = NoLocals
    /\ UNCHANGED <<now, pre, prev>>

(* ---------------------------- clear_database -------------------------- *)
\* lines 257-258
clear_database ==
    /\ pc = "idle"
    /\ pre' = db
    /\ pc' = "clear_results"
    /\ locals' = NoLocals
    /\ UNCHANGED <<db, journal, now, ret, prev>>

\* line 261
clear_results ==
    /\ pc = "clear_results"
    /\ journal' = Begin(journal, db)
    /\ db' = [db EXCEPT !.results = {}]
    /\ pc' = "clear_streaks"
    /\ UNCHANGED <<now, locals, ret, pre, prev>>

\* line 262
clear_streaks ==
    /\ pc = "clear_streaks"
    /\ journal' = Begin(journal, db)
    /\ db' = [db EXCEPT !.streaks = {}]
    /\ pc' = "clear_users"
    /\ UNCHANGED <<now, locals, ret, pre, prev>>

\* a wipe whose third statement deletes nothing
clear_users_kept ==
    /\ pc = "clear_users"
    /\ journal' = Begin(journal, db)
    /\ pc' = "clear_commit"
    /\ UNCHANGED <<db, now, locals, ret, pre, prev>>

\* line 263
clear_users ==
    /\ pc = "clear_users"
    /\ journal' = Begin(journal, db)
    /\ db' = [db EXCEPT !.users = {}]
    /\ pc' = "clear_commit"
    /\ UNCHANGED <<now, locals, ret, pre, prev>>

\* lines 264-265
clear_commit ==
    /\ pc = "clear_commit"
    /\ journal' = NoTx
    /\ ret' = [op |-> "clear_database", status |-> "ok"]
    /\ pc' = "done"
    /\ UNCHANGED <<db, now, locals, pre, prev>>

ClearTry == {"clear_results", "clear_streaks", "clear_users", "clear_commit"}

\* lines 266-270: the statement at pc raises; roll back and re-raise
clear_except ==
    /\ pc \in ClearTry
    /\ db' = Rollback(journal, db)
    /\ journal' = NoTx
    /\ ret' = [op |-> "clear_database", status |-> "error", at |-> pc]
    /\ pc' = "done"
    /\ UNCHANGED <<now, locals, pre, prev>>

(* ---------------------------- specification --------------------------- *)
Next ==
    \/ Tick
    \/ caller_continue
    \/ \E message \in Messages : add_streak_data(message)
    \/ add_insert_streak
    \/ add_user_insert
    \/ add_user_select
    \/ add_insert_result
    \/ add_commit
    \/ add_return
    \/ add_except
    \/ \E day \in DayArgs, confirm \in BOOLEAN, confirmation \in {"DELETE", "delete"} :
          delete_day(day, confirm, confirmation)
    \/ \E day \in DayArgs : get_day_details(day)
    \/ del_begin
    \/ del_results
    \/ del_streak
    \/ del_commit
    \/ del_except
    \/ clear_database
    \/ clear_results
    \/ clear_streaks
    \/ clear_users
    \/ clear_commit
    \/ clear_except

Spec == Init /\ [][Next]_vars

(* ------------------------------- claims ------------------------------- *)
AddDone == pc = "done" /\ ret.op = "add_streak_data"
AddOk == AddDone /\ ret.status = "ok"
AddError == AddDone /\ ret.status = "error"

\* C1: when a statement from the StreakDay insert to the last Result upsert
\* of add_streak_data fails, nothing of the message is persisted: the
\* Results, the Users and the StreakDays are those from before the call.
C1_RollbackOnWriteFailure ==
    (AddError /\ ret.at \in {"insert_streak", "insert_user", "select_user", "insert_result"})
        => /\ db.results = pre.results
           /\ db.users = pre.users
           /\ db.streaks = pre.streaks

\* the second result of a message failed after the first was written, for a
\* day and users the store did not hold before the call
C1_Witness ==
    /\ AddError /\ ret.at = "insert_result" /\ ret.n = 2
    /\ Len(parse_message(ret.message).results) = 3
    /\ pre.streaks = {} /\ pre.users = {}
    /\ db.seq = pre.seq

\* C2 (as claimed): whenever add_streak_data raises, at whichever statement,
\* the store is as before the call.
C2_ErrorMeansNotImported ==
    (AddDone /\ ret.status \in {"error", "ValueError"})
        => /\ db.users = pre.users
           /\ db.streaks = pre.streaks
           /\ db.results = pre.results

\* C3: no two StreakDay rows have the same day number, and an ingestion
\* for a day that already has its row, once it has returned, has stored a
\* Result for every username of the message.
C3_OneRowPerDay ==
    /\ \A s1, s2 \in db.streaks : s1.day = s2.day => s1 = s2
    /\ (AddOk /\ \E s \in pre.streaks : s.day = ret.day)
          => \A k \in 1..Len(ret.users_in_day) :
                \E r \in ResultView(db) :
                    r.day = ret.day /\ r.username = ret.users_in_day[k]

\* a second message for a stored day returned and left Results the store
\* did not have
C3_Witness ==
    /\ AddOk
    /\ \E s \in pre.streaks : s.day = ret.day
    /\ Len(ret.users_in_day) > 0
    /\ ResultView(db) # ResultView(pre)
    /\ Cardinality(db.streaks) = Cardinality(pre.streaks)

\* the index of the last result of the message that names the username of result k
LastOccurrence(results, k) ==
    CHOOSE n \in k..Len(results) :
        /\ results[n].username = results[k].username
        /\ \A j \in (n + 1)..Len(results) : results[j].username # results[k].username

\* C4: there is at most one Result per (day, user), and after a successful
\* ingestion the Result of each (day, username) of the message carries the
\* score and the winner flag of the username's last occurrence in the message.
C4_LastWriteWins ==
    /\ \A r1, r2 \in db.results :
          (r1.streak_day = r2.streak_day /\ r1.user_id = r2.user_id) => r1 = r2
    /\ AddOk =>
          LET results == parse_message(ret.message).results
          IN  \A k \in 1..Len(results) :
                 LET last == results[LastOccurrence(results, k)]
                 IN  {r \in ResultView(db) :
                         r.day = ret.day /\ r.username = results[k].username}
                     = {[day |-> ret.day, username |-> last.username,
                         score |-> last.score, is_winner |-> last.is_winner]}

\* a message that names a username twice replaced the Result an earlier
\* message had stored for that username and day
C4_Witness ==
    /\ AddOk
    /\ LET results == parse_message(ret.message).results
       IN  \E k \in 1..Len(results) :
              /\ LastOccurrence(results, k) # k
              /\ results[LastOccurrence(results, k)].score # results[k].score
              /\ \E r \in ResultView(pre) :
                    /\ r.day = ret.day /\ r.username = results[k].username
                    /\ r.score # results[LastOccurrence(results, k)].score

\* C5: a message ingested right after a successful ingestion of the same
\* message leaves the usernames, the StreakDays with their imported
\* timestamps and the (day, username, score, winner) Results as the first
\* ingestion left them.
C5_ResubmitIsIdempotent ==
    (AddOk /\ prev.valid /\ prev.message = ret.message) => StoreView(db) = prev.view

\* the same message was ingested twice in succession, the second time at a
\* later clock value, on a store that held other data before
C5_Witness ==
    /\ AddOk /\ prev.valid /\ prev.message = ret.message
    /\ Len(ret.users_in_day) > 1
    /\ \E s \in db.streaks : s.day = ret.day /\ s.imported_at < now
    /\ \E s \in db.streaks : s.day # ret.day
    /\ db.seq.results > pre.seq.results

\* a text holds "<digit> day streak" in some letter case
HasDayMarkerText(message) ==
    \E j \in 2..Len(message) :
        message[j] \in {DAY_STREAK, DAY_STREAK_CAP} /\ message[j - 1] \in Digits

\* C6: for a message without day marker add_streak_data raises the parse
\* error and the store is exactly as before the call.
C6_NoMarkerNoMutation ==
    (AddDone /\ ~HasDayMarkerText(ret.message))
        => /\ ret.status = "ValueError"
           /\ db = pre
           /\ ~journal.open

\* a message without marker was rejected on a store that holds data
C6_Witness ==
    /\ AddDone /\ ~HasDayMarkerText(ret.message)
    /\ ret.status = "ValueError"
    /\ db.results # {}
    /\ Len(ret.message) > 2

\* C7: while and after add_streak_data runs for a day whose StreakDay row
\* exists, that row keeps its id and its imported timestamp.
C7_ExistingDayUntouched ==
    /\ pc \in AddTry =>
          \A s \in pre.streaks : s.day = locals.parsed_data.day => s \in db.streaks
    /\ (AddDone /\ ret.status # "ValueError") =>
          \A s \in pre.streaks : s.day = streak_day(ret.message) => s \in db.streaks

\* an ingestion for a stored day returned at a later clock value than the
\* one the day was imported at
C7_Witness ==
    /\ AddOk
    /\ \E s \in pre.streaks : s.day = ret.day /\ s.imported_at < now /\ s \in db.streaks
    /\ db.seq.streaks > pre.seq.streaks

\* C8: no Result is orphaned: the streak_day of every Result is the day of
\* a StreakDay row and its user_id is the id of a User row.
C8_NoOrphanedResult ==
    \A r \in db.results :
        /\ \E s \in db.streaks : s.day = r.streak_day
        /\ \E u \in db.users : u.id = r.user_id

\* a day was deleted while another day keeps its Results
C8_Witness ==
    /\ pc = "done" /\ ret.op = "delete_day" /\ ret.status = TRUE
    /\ pre.results # db.results
    /\ db.results # {}

\* C9 (as claimed): in the committed store every User row is referenced by
\* at least one Result.
C9_NoOrphanedUser ==
    ~journal.open => \A u \in db.users : \E r \in db.results : r.user_id = u.id

DelDone == pc = "done" /\ ret.op = "delete_day"

\* C10: delete_day removes the Results of the day and its StreakDay row
\* together or not at all; a failure after the Results delete leaves the
\* store as before the call.
C10_DeleteDayAtomic ==
    /\ (DelDone /\ ret.status = TRUE) =>
          /\ ~\E r \in db.results : r.streak_day = ret.day
          /\ ~\E s \in db.streaks : s.day = ret.day
    /\ (DelDone /\ ret.status = FALSE) => db = pre
    /\ DelDone => ~journal.open

\* the StreakDay delete failed after the Results of the day were deleted
C10_Witness ==
    /\ DelDone /\ ret.status = FALSE /\ ret.at = "del_streak"
    /\ \E r \in pre.results : r.streak_day = ret.day
    /\ \E s \in db.streaks : s.day = ret.day

GetDone == pc = "done" /\ ret.op = "get_day_details"

\* C11: for a day number with no StreakDay row, get_day_details returns
\* None and delete_day returns False at its lookup; neither raises and
\* the store is as before the call.
C11_UnknownDayIsNotAnError ==
    /\ (GetDone /\ NotFound(pre, ret.day)) => (ret.status = "None" /\ db = pre)
    /\ (DelDone /\ NotFound(pre, ret.day)) =>
          (ret.status = FALSE /\ ret.at = "not_found" /\ db = pre)

\* a day that is not stored was looked up while another day is stored
C11_Witness ==
    /\ GetDone /\ NotFound(pre, ret.day)
    /\ pre.streaks # {} /\ pre.results # {}

(* ----------------------- the parser on its own ------------------------ *)
DAY_STREAK_UP == " day STREAK"

\* what a text starts with: a day marker, a marker of many digits, a marker
\* with the word in another letter case, two markers, no marker
Heads ==
    { <<"1", DAY_STREAK>>,
      <<"4", "2", DAY_STREAK>>,
      <<"4", "2", DAY_STREAK_CAP>>,
      <<"4", "2", DAY_STREAK_UP>>,
      <<"1", DAY_STREAK_CAP, " ", "2", DAY_STREAK>>,
      <<"1", DAY_STREAK, " ", "2", DAY_STREAK>>,
      <<"s">> }

\* what stands in front of a score token
Crowns == {<<>>, <<CROWN>>, <<CROWN, " ">>, <<REAL_CROWN, " ">>}
Tokens == {"3", "X"}
\* what follows "<token>/6:"
UserTexts ==
    { <<" ", "@", "A">>,
      <<"@", "A", "@", "B">>,
      <<" ", "@", "A", ",", " ">>,
      <<" ", "@", "A", " ", "b", ".", "!">>,
      <<"@", " ", "@", "B", " ", ",">>,
      <<" ", "@", "B", " ", "7", SIX, " ", "x">>,
      <<" ", "@", "a", ",", "b", "?", "\n">>,
      <<" ", "@", ",">> }

Blocks == {c \o <<t, SIX>> \o u : c \in Crowns, t \in Tokens, u \in UserTexts}

\* a head alone, or followed by one or two score blocks, or a day marker
\* with a score block in front of it
ParseInputs ==
    Heads
    \cup {h \o <<"\n">> \o b : h \in Heads, b \in Blocks}
    \cup {h \o <<"\n">> \o b1 \o <<" ">> \o b2 : h \in Heads, b1 \in Blocks, b2 \in Blocks}
    \cup {b \o <<" ">> \o Header("1") : b \in Blocks}
    \cup {b1 \o <<" ">> \o Header("1") \o <<"\n">> \o b2 : b1 \in Blocks, b2 \in Blocks}

ParseInit ==
    /\ db = EmptyDb
    /\ journal = NoTx
    /\ now = 0
    /\ pc = "idle"
    /\ locals \in {[NoLocals EXCEPT !.message = m] : m \in ParseInputs}
    /\ ret = NoRet
    /\ pre = EmptyDb
    /\ prev = NoPrev

\* one call of parse_message(message): the dictionary of lines 58-105 or
\* the ValueError of line 63
parse ==
    /\ pc = "idle"
    /\ pc' = "done"
    /\ ret' = IF streak_match(locals.message)
              THEN [op |-> "parse_message", status |-> "ok", message |-> locals.message,
                    day |-> parse_message(locals.message).day,
                    results |-> parse_message(locals.message).results]
              ELSE [op |-> "parse_message", status |-> "ValueError",
                    message |-> locals.message]
    /\ UNCHANGED <<db, journal, now, locals, pre, prev>>

SpecParse == ParseInit /\ [][parse]_vars

ParseDone == pc = "done" /\ ret.op = "parse_message"
ParseOk == ParseDone /\ ret.status = "ok"

(* ------------------- score blocks as the text shows them -------------- *)
RECURSIVE Flatten(_)
Flatten(ss) == IF ss = <<>> THEN <<>> ELSE Head(ss) \o Flatten(Tail(ss))

NonEmpty(u) == u # <<>>

\* position k holds "<token>/6:"
IsMarker(s, k) == k + 1 <= Len(s) /\ s[k] \in ScoreChars /\ s[k + 1] = SIX
MarkerPos(s) == {k \in 1..Len(s) : IsMarker(s, k)}
\* the markers in the order of the text
MarkerSeq(s) ==
    [n \in 1..Cardinality(MarkerPos(s)) |->
        CHOOSE k \in MarkerPos(s) : Cardinality({j \in MarkerPos(s) : j < k}) = n - 1]

\* the crown glyphs in front of the marker at m, with only whitespace between
CrownBefore(s, m) ==
    {c \in 1..(m - 1) : /\ s[c] \in {CROWN, REAL_CROWN}
                        /\ \A j \in (c + 1)..(m - 1) : s[j] \in Spaces}

\* the text of the block of marker m: up to the next marker and its crown,
\* or to the end of the text
BlockText(s, m) ==
    LET later == {k \in MarkerPos(s) : k > m}
        e == IF later = {} THEN Len(s) + 1
             ELSE IF CrownBefore(s, Min(later)) = {} THEN Min(later)
             ELSE Min(CrownBefore(s, Min(later)))
    IN  SubSeq(s, m + 2, e - 1)

\* the results of the block of marker m
BlockResults(s, m) ==
    LET parts == split(BlockText(s, m))
        names == SelectSeq([i \in 1..(Len(parts) - 1) |-> clean_user(parts[i + 1])], NonEmpty)
    IN  [i \in 1..Len(names) |->
            [username |-> names[i], score |-> s[m], is_winner |-> CrownBefore(s, m) # {}]]

AllBlockResults(s) ==
    Flatten([n \in 1..Len(MarkerSeq(s)) |-> BlockResults(s, MarkerSeq(s)[n])])

\* C12 (as claimed): the results of a message are, block after block and
\* username after username, the block's token as score and is_winner true
\* exactly for the blocks whose marker has the crown glyph in front of it.
C12_CrownedBlockWinners ==
    ParseOk => ret.results = AllBlockResults(ret.message)

\* C13 (as claimed): every "<token>/6:" of the message starts a block of
\* its own, whether or not the next marker carries a crown, and as many
\* results are emitted as the blocks hold usernames.
C13_EveryMarkerOneBlock ==
    ParseOk =>
        LET lines == score_lines(ret.message, 1)
        IN  /\ Len(lines) = Len(MarkerSeq(ret.message))
            /\ \A n \in 1..Len(lines) : lines[n].score = ret.message[MarkerSeq(ret.message)[n]]
            /\ Len(ret.results) = Len(AllBlockResults(ret.message))

(* ------------------------------ day marker ---------------------------- *)
\* positions of a " day streak" in some letter case that follows a digit
AnyCaseMarks(message) ==
    {j \in 2..Len(message) :
        /\ message[j] \in {DAY_STREAK, DAY_STREAK_CAP, DAY_STREAK_UP}
        /\ message[j - 1] \in Digits}

\* the number written by the digits in front of position j, read left to right
RECURSIVE NumberFrom(_, _, _, _)
NumberFrom(message, i, j, acc) ==
    IF i >= j THEN acc
    ELSE NumberFrom(message, i + 1, j, 10 * acc + DigitVal(message[i]))

RECURSIVE RunStart(_, _)
RunStart(message, j) ==
    IF j > 1 /\ message[j - 1] \in Digits THEN RunStart(message, j - 1) ELSE j

DayAt(message, j) == NumberFrom(message, RunStart(message, j), j, 0)

\* C14 (as claimed): the day marker is recognised in any letter case of
\* the word "streak", and the day is the integer of the first marker.
C14_MarkerAnyCase ==
    ParseDone =>
        IF AnyCaseMarks(ret.message) = {} THEN ret.status = "ValueError"
        ELSE /\ ret.status = "ok"
             /\ ret.day = DayAt(ret.message, Min(AnyCaseMarks(ret.message)))

\* C14 (amended): the day marker is recognised only with "day streak" in
\* lower case; a text whose markers are all written otherwise raises the
\* ValueError, and the day is the integer of the first lower-case marker.
C14_MarkerLowerCaseFirst ==
    ParseDone =>
        LET lower == {j \in AnyCaseMarks(ret.message) : ret.message[j] = DAY_STREAK}
        IN  IF lower = {} THEN ret.status = "ValueError"
            ELSE /\ ret.status = "ok"
                 /\ ret.day = DayAt(ret.message, Min(lower))

\* a text with two lower-case markers of different days was parsed and the
\* day of the first was returned
C14_Witness ==
    /\ ParseOk
    /\ \E i, j \in AnyCaseMarks(ret.message) :
          /\ i < j
          /\ ret.message[i] = DAY_STREAK /\ ret.message[j] = DAY_STREAK
          /\ DayAt(ret.message, i) # DayAt(ret.message, j)
          /\ ret.day = DayAt(ret.message, i)

(* ------------------------------ usernames ----------------------------- *)
RECURSIVE DropTrailing(_, _)
DropTrailing(s, C) ==
    IF s # <<>> /\ s[Len(s)] \in C THEN DropTrailing(SubSeq(s, 1, Len(s) - 1), C) ELSE s

RECURSIVE DropLeading(_, _)
DropLeading(s, C) ==
    IF s # <<>> /\ s[1] \in C THEN DropLeading(Tail(s), C) ELSE s

Trim(s) == DropLeading(DropTrailing(s, Spaces), Spaces)

\* a segment up to its first digit or upper-case letter that "/6:" follows
RECURSIVE CutAtSlashSix(_)
CutAtSlashSix(seg) ==
    IF seg = <<>> THEN <<>>
    ELSE IF Len(seg) >= 2 /\ seg[1] \in (Digits \cup Upper) /\ seg[2] = SIX THEN <<>>
    ELSE <<seg[1]>> \o CutAtSlashSix(Tail(seg))

\* punctuation first, whitespace second
TrimPunctFirst(seg) == Trim(DropTrailing(seg, Punct))
\* whitespace, then punctuation, then whitespace again, on the cut segment
TrimSpaceFirst(seg) == Trim(DropTrailing(Trim(CutAtSlashSix(seg)), Punct))

\* the segments after the "@"s of the score lines, line after line
Segments(message) ==
    LET lines == score_lines(message, 1)
    IN  Flatten([n \in 1..Len(lines) |-> Tail(split(lines[n].usernames))])

UsernamesOf(results) == [k \in 1..Len(results) |-> results[k].username]

\* C15 (as claimed): the usernames are the segments with trailing
\* punctuation stripped first and surrounding whitespace second, the empty
\* ones skipped, nothing else altered.
C15_TrimPunctuationThenSpace ==
    ParseOk =>
        LET segs == Segments(ret.message)
        IN  UsernamesOf(ret.results)
              = SelectSeq([k \in 1..Len(segs) |-> TrimPunctFirst(segs[k])], NonEmpty)

\* C15 (amended): a segment is also cut at the first digit or upper-case
\* letter followed by "/6:"; surrounding whitespace is stripped first, then
\* trailing punctuation, then whitespace again; the empty ones are skipped
\* and nothing else is altered.
C15_TrimSpacePunctuationSpace ==
    ParseOk =>
        LET segs == Segments(ret.message)
        IN  UsernamesOf(ret.results)
              = SelectSeq([k \in 1..Len(segs) |-> TrimSpaceFirst(segs[k])], NonEmpty)

\* a text was parsed in which one segment lost punctuation that whitespace
\* followed, one was cut at a "7/6:" and one was skipped as empty
C15_Witness ==
    /\ ParseOk
    /\ LET segs == Segments(ret.message)
       IN  /\ \E k \in 1..Len(segs) :
                 /\ TrimSpaceFirst(segs[k]) # <<>>
                 /\ CutAtSlashSix(segs[k]) = segs[k]
                 /\ TrimSpaceFirst(segs[k]) # TrimPunctFirst(segs[k])
           /\ \E k \in 1..Len(segs) : CutAtSlashSix(segs[k]) # segs[k]
           /\ \E k \in 1..Len(segs) : TrimSpaceFirst(segs[k]) = <<>>

(* --------------------------- the statistics --------------------------- *)
\* a score with X counted as zero
score_to_numeric_zero(score) == IF score = "X" THEN 0 ELSE int(<<score>>)

\* WordleCommon.score_to_numeric
score_to_numeric(score) == IF score = "X" THEN 7 ELSE int(<<score>>)

RECURSIVE SumSeq(_)
SumSeq(ns) == IF ns = <<>> THEN 0 ELSE Head(ns) + SumSeq(Tail(ns))

\* the rows of a set as a sequence in the order of their ids
ById(rows) ==
    [n \in 1..Cardinality(rows) |->
        CHOOSE r \in rows : Cardinality({x \in rows : x.id < r.id}) = n - 1]

\* a mean, kept as the sum and the number of the values
Mean(ns) == [total |-> SumSeq(ns), count |-> Len(ns)]
NoMean == [total |-> 0, count |-> 0]

\* the stores the statistics are read from: user A and user B with a score
\* or none on each of the days 1, 2 and 8, and possibly a day 9 without results
NoScore == "-"
StatCells ==
    [a1 : ScoreChars \cup {NoScore}, a2 : {"1", "6", "X", NoScore}, a8 : {"3", "X", NoScore},
     b1 : {"4", "X", NoScore}, b8 : {"4", "X", NoScore}, day9 : BOOLEAN]

StatEntries(c) ==
    {e \in { [day |-> 1, user |-> 1, score |-> c.a1], [day |-> 1, user |-> 2, score |-> c.b1],
             [day |-> 2, user |-> 1, score |-> c.a2],
             [day |-> 8, user |-> 1, score |-> c.a8], [day |-> 8, user |-> 2, score |-> c.b8] } :
        e.score # NoScore}

\* the store after the days of the cells were ingested in ascending order,
\* user A before user B
StatStore(c) ==
    LET entries == StatEntries(c)
        days == {e.day : e \in entries} \cup (IF c.day9 THEN {9} ELSE {})
        people == {e.user : e \in entries}
        uid(u) == Cardinality({p \in people : p <= u})
        name(u) == IF u = 1 THEN <<"A">> ELSE <<"B">>
        rid(e) == Cardinality({x \in entries : x.day < e.day \/ (x.day = e.day /\ x.user <= e.user)})
    IN  [users |-> {[id |-> uid(u), username |-> name(u), first_seen |-> 0] : u \in people},
         streaks |-> {[id |-> Cardinality({x \in days : x <= d}), day |-> d, imported_at |-> 0] :
                         d \in days},
         results |-> {[id |-> rid(e), streak_day |-> e.day, user_id |-> uid(e.user),
                       score |-> e.score, is_winner |-> FALSE] : e \in entries},
         seq |-> [users |-> Cardinality(people), streaks |-> Cardinality(days),
                  results |-> Cardinality(entries)]]

StatsInit ==
    /\ db \in {StatStore(c) : c \in StatCells}
    /\ journal = NoTx
    /\ now = 0
    /\ pc = "idle"
    /\ locals = NoLocals
    /\ ret = NoRet
    /\ pre = EmptyDb
    /\ prev = NoPrev

\* lines 45-58 and 111-126: the user_data of the users with a game among the
\* results of the days lo..hi
UserData(d, lo, hi) ==
    LET rows(u) == {r \in d.results : r.user_id = u.id /\ r.streak_day >= lo /\ r.streak_day <= hi}
        players == {u \in d.users : rows(u) # {}}
    IN  [username \in {u.username : u \in players} |->
            LET u == CHOOSE x \in players : x.username = username
                scores == [n \in 1..Cardinality(rows(u)) |-> ById(rows(u))[n].score]
                numeric_scores == [n \in 1..Len(scores) |-> score_to_numeric(scores[n])]
            IN  [user_id |-> u.id, games_played |-> Cardinality(rows(u)),
                 scores |-> scores, numeric_scores |-> numeric_scores,
                 average_score |-> Mean(numeric_scores)]]

\* the SQLite library the interpreter is linked with accepts, or rejects
\* with a syntax error, the ORDER BY inside GROUP_CONCAT of
\* _calculate_streak_consistency (line 147); it accepts it from 3.44 on
OrderedAggregates == BOOLEAN

\* get_all_time_stats, lines 28-95 (the fields of lines 51-58)
get_all_time_stats ==
    /\ pc = "idle"
    /\ pc' = "done"
    /\ pre' = db
    /\ \E ordered \in OrderedAggregates :
          ret' = IF ordered
                 THEN [op |-> "get_all_time_stats", status |-> "ok",
                       user_data |-> UserData(db, 0, Max({s.day : s \in db.streaks} \cup {0}))]
                 ELSE [op |-> "get_all_time_stats", status |-> "error"]
    /\ UNCHANGED <<db, journal, now, locals, prev>>

\* get_last_week_stats, lines 97-135 (the fields of lines 117-126)
get_last_week_stats ==
    /\ pc = "idle"
    /\ pc' = "done"
    /\ pre' = db
    /\ \E ordered \in OrderedAggregates :
          ret' = LET max_day == Max({s.day : s \in db.streaks} \cup {0})
                     start_day == Max({1, max_day - 6})
                 IN  IF max_day = 0
                     THEN [op |-> "get_last_week_stats", status |-> "ok",
                           user_data |-> UserData(db, 1, 0)]
                     ELSE IF ordered
                     THEN [op |-> "get_last_week_stats", status |-> "ok",
                           user_data |-> UserData(db, start_day, max_day)]
                     ELSE [op |-> "get_last_week_stats", status |-> "error"]
    /\ UNCHANGED <<db, journal, now, locals, prev>>

\* the day viewer with X counted as a score of 7
show_day_data_all(day) ==
    /\ pc = "idle"
    /\ pc' = "done"
    /\ pre' = db
    /\ ret' = LET results == ById({r \in db.results : r.streak_day = day})
                  all == [n \in 1..Len(results) |-> score_to_numeric(results[n].score)]
              IN  IF NotFound(db, day)
                  THEN [op |-> "show_day_data", status |-> "not_found", day |-> day]
                  ELSE IF results = <<>>
                  THEN [op |-> "show_day_data", status |-> "no_participants", day |-> day]
                  ELSE [op |-> "show_day_data", status |-> "shown", day |-> day,
                        total_players |-> Len(results),
                        successful_players |-> Len(results),
                        failed_players |-> 0,
                        avg_score |-> Mean(all)]
    /\ UNCHANGED <<db, journal, now, locals, prev>>

\* show_day.py show_day_data, lines 6-123 (the statistics of lines 94-113)
show_day_data(day) ==
    /\ pc = "idle"
    /\ pc' = "done"
    /\ pre' = db
    /\ ret' = LET results == ById({r \in db.results : r.streak_day = day})
                  successful == SelectSeq(results, LAMBDA r : r.score # "X")
                  failed == SelectSeq(results, LAMBDA r : r.score = "X")
              IN  IF NotFound(db, day)
                  THEN [op |-> "show_day_data", status |-> "not_found", day |-> day]
                  ELSE IF results = <<>>
                  THEN [op |-> "show_day_data", status |-> "no_participants", day |-> day]
                  ELSE [op |-> "show_day_data", status |-> "shown", day |-> day,
                        total_players |-> Len(results),
                        successful_players |-> Len(successful),
                        failed_players |-> Len(failed),
                        avg_score |-> IF Len(successful) > 0
                                      THEN Mean([n \in 1..Len(successful) |-> int(<<successful[n].score>>)])
                                      ELSE NoMean]
    /\ UNCHANGED <<db, journal, now, locals, prev>>

(* ------------------------- time-series export ------------------------- *)
\* SELECT s.day, u.username, r.score FROM results r JOIN users u ... JOIN streaks s ...
PlotRows(d) ==
    {[day |-> s.day, username |-> u.username, score |-> r.score] :
        <<r, u, s>> \in {x \in d.results \X d.users \X d.streaks :
                            x[1].user_id = x[2].id /\ x[1].streak_day = x[3].day}}

\* sorted(list(all_days))
SortedDays(days) ==
    [n \in 1..Cardinality(days) |->
        CHOOSE x \in days : Cardinality({y \in days : y < x}) = n - 1]

\* the numeric score of the user's row of the day as a one-element
\* sequence, the empty sequence for None
ScoreOn(rows, username, day) ==
    IF \E r \in rows : r.username = username /\ r.day = day
    THEN <<score_to_numeric((CHOOSE r \in rows : r.username = username /\ r.day = day).score)>>
    ELSE <<>>

\* an export that lists only the days on which the user has a score
get_plot_data_sparse ==
    /\ pc = "idle"
    /\ pc' = "done"
    /\ pre' = db
    /\ ret' = LET rows == PlotRows(db)
                  sorted_days == SortedDays({r.day : r \in rows})
              IN  [op |-> "get_plot_data", status |-> "ok", days |-> sorted_days,
                   users |-> [username \in {r.username : r \in rows} |->
                                 LET mine == SortedDays({r.day : r \in {x \in rows : x.username = username}})
                                 IN  [k \in 1..Len(mine) |->
                                         [x |-> mine[k], y |-> ScoreOn(rows, username, mine[k])]]]]
    /\ UNCHANGED <<db, journal, now, locals, prev>>

\* get_plot_data, lines 247-306 (users keyed by name; the colours and the
\* order of the users are left out)
get_plot_data ==
    /\ pc = "idle"
    /\ pc' = "done"
    /\ pre' = db
    /\ ret' = LET rows == PlotRows(db)
                  sorted_days == SortedDays({r.day : r \in rows})
              IN  [op |-> "get_plot_data", status |-> "ok", days |-> sorted_days,
                   users |-> [username \in {r.username : r \in rows} |->
                                 [k \in 1..Len(sorted_days) |->
                                     [x |-> sorted_days[k],
                                      y |-> ScoreOn(rows, username, sorted_days[k])]]]]
    /\ UNCHANGED <<db, journal, now, locals, prev>>

\* WordleVideoGenerator.get_user_data_over_time, lines 29-74
get_user_data_over_time ==
    /\ pc = "idle"
    /\ pc' = "done"
    /\ pre' = db
    /\ ret' = LET rows == PlotRows(db)
                  all_days == {r.day : r \in rows}
                  all_users == {r.username : r \in rows}
              IN  [op |-> "get_user_data_over_time", status |-> "ok",
                   sorted_days |-> SortedDays(all_days),
                   all_users |-> all_users,
                   day_data |-> [day \in all_days |->
                                    [username \in all_users |-> ScoreOn(rows, username, day)]]]
    /\ UNCHANGED <<db, journal, now, locals, prev>>

\* the days asked of the day viewer: the days of the stores and one absent
StatDayArgs == {1, 2, 5, 8, 9}

StatsNext ==
    \/ get_all_time_stats
    \/ get_last_week_stats
    \/ \E day \in StatDayArgs : show_day_data(day)
    \/ get_plot_data
    \/ get_user_data_over_time

SpecStats == StatsInit /\ [][StatsNext]_vars

AllTimeDone == pc = "done" /\ ret.op = "get_all_time_stats" /\ ret.status = "ok"
LastWeekDone == pc = "done" /\ ret.op = "get_last_week_stats" /\ ret.status = "ok"
ShowDayDone == pc = "done" /\ ret.op = "show_day_data" /\ ret.status = "shown"

\* the tokens from best to worst
Ranking == <<"1", "2", "3", "4", "5", "6", "X">>
RankOf(score) == CHOOSE n \in 1..7 : Ranking[n] = score

\* C16: score_to_numeric maps "1".."6" to 1..6 and "X" to 7, a strict total
\* order with X last, and these are the numeric scores the statistics use.
C16_ScoreRanking ==
    /\ \A i, j \in 1..7 :
          (i < j) <=> (score_to_numeric(Ranking[i]) < score_to_numeric(Ranking[j]))
    /\ AllTimeDone =>
          \A u \in DOMAIN ret.user_data :
              \A n \in 1..Len(ret.user_data[u].scores) :
                  ret.user_data[u].numeric_scores[n] = RankOf(ret.user_data[u].scores[n])

\* the statistics converted a failed game and a solved game of one user
C16_Witness ==
    /\ AllTimeDone
    /\ \E u \in DOMAIN ret.user_data :
          /\ \E n \in 1..Len(ret.user_data[u].scores) :
                ret.user_data[u].scores[n] = "X" /\ ret.user_data[u].numeric_scores[n] = 7
          /\ \E n \in 1..Len(ret.user_data[u].scores) :
                ret.user_data[u].scores[n] = "6" /\ ret.user_data[u].numeric_scores[n] = 6

RECURSIVE SumRanks(_)
SumRanks(rows) ==
    IF rows = {} THEN 0
    ELSE LET r == CHOOSE x \in rows : TRUE
         IN  RankOf(r.score) + SumRanks(rows \ {r})

Solved(rows) == {r \in rows : r.score # "X"}
\* a mean of the code is the mean of the ranks of the rows
IsMeanOf(m, rows) == m.count = Cardinality(rows) /\ m.total = SumRanks(rows)

RowsOfUser(d, username, lo, hi) ==
    {r \in d.results : /\ r.streak_day >= lo /\ r.streak_day <= hi
                       /\ \E u \in d.users : u.id = r.user_id /\ u.username = username}

\* the first day of the last week of a store
WeekStart(d) ==
    LET last == Max({s.day : s \in d.streaks})
    IN  IF last - 6 < 1 THEN 1 ELSE last - 6

Committed == Rollback(journal, db)

\* C18: outside clear_database no step removes or changes a committed User
\* row; no two User rows share an id or a username; and a returned
\* add_streak_data has left exactly the Users from before plus one for each
\* username of the message that no User had, in that exact spelling.
C18_UsersPersist ==
    [][ /\ (pc \notin ClearTry) => (Committed.users \subseteq Committed'.users)
        /\ \A u1, u2 \in db'.users :
              (u1.id = u2.id \/ u1.username = u2.username) => u1 = u2
        /\ AddOk' =>
              /\ pre'.users \subseteq db'.users
              /\ {u.username : u \in db'.users}
                   = {u.username : u \in pre'.users}
                     \cup {ret'.users_in_day[k] : k \in 1..Len(ret'.users_in_day)}
      ]_vars

\* a message with the username "b" was ingested into a store that holds a
\* User "B" and Results of other users, and a new User was created for it
C18_Witness ==
    /\ AddOk
    /\ \E u \in pre.users : u.username = <<"B">>
    /\ ~\E u \in pre.users : u.username = <<"b">>
    /\ \E u \in db.users : u.username = <<"b">> /\ u.id > 2
    /\ Cardinality(db.users) = 3

(* ------------------ whole calls, one after the other ------------------ *)
\* lines 129-137: the loop over the results, from result n on
RECURSIVE ApplyResults(_, _, _, _, _)
ApplyResults(d, day, results, n, t) ==
    IF n > Len(results) THEN d
    ELSE LET d1 == InsertOrIgnoreUser(d, results[n].username, t)
             user_id == SelectUserId(d1, results[n].username)
             d2 == InsertOrReplaceResult(d1, day, user_id, results[n].score,
                                         results[n].is_winner)
         IN  ApplyResults(d2, day, results, n + 1, t)

\* lines 121-139 without a failing statement: what a committed
\* add_streak_data has written
Ingest(d, parsed_data, t) ==
    ApplyResults(InsertOrIgnoreStreak(d, parsed_data.day, t), parsed_data.day,
                 parsed_data.results, 1, t)

\* messages for the days 1, 2, 4 and 7: three users in two blocks, two
\* users in a crowned block, no user; and a text without day marker
CallBodies ==
    { <<" ", "3", SIX, " ", "@", "A", " ", "@", "B", " ", "X", SIX, " ", "@", "C">>,
      <<" ", CROWN, "4", SIX, " ", "@", "C", "@", "A">>,
      <<>> }
CallMessages ==
    {Header(d) \o b : d \in {"1", "2", "4", "7"}, b \in CallBodies}
    \cup {<<"3", SIX, " ", "@", "A">>}
CallDays == {1, 2, 4, 7}

\* add_streak_data(message) from call to return
add_streak_data_call(message) ==
    /\ db.seq.streaks < MaxStreakSeq
    /\ pre' = db
    /\ pc' = "done"
    /\ IF ~streak_match(message)
       THEN /\ ret' = [op |-> "add_streak_data", status |-> "ValueError", message |-> message]
            /\ UNCHANGED db
       ELSE /\ db' = Ingest(db, parse_message(message), now)
            /\ ret' = [op |-> "add_streak_data", status |-> "ok", message |-> message,
                       day |-> parse_message(message).day,
                       results_added |-> CountResults(db', parse_message(message).day),
                       users_in_day |-> UsernamesOf(parse_message(message).results)]
    /\ UNCHANGED <<journal, now, locals, prev>>

\* delete_day(day, confirm=True) from call to return
delete_day_call(day) ==
    /\ pre' = db
    /\ pc' = "done"
    /\ IF NotFound(db, day)
       THEN /\ ret' = [op |-> "delete_day", status |-> FALSE, day |-> day, at |-> "not_found"]
            /\ UNCHANGED db
       ELSE /\ db' = DeleteStreak(DeleteResultsOfDay(db, day), day)
            /\ ret' = [op |-> "delete_day", status |-> TRUE, day |-> day, at |-> "done"]
    /\ UNCHANGED <<journal, now, locals, prev>>

\* a gap that includes the stored days on its two sides
DiagGaps_closed(streak_days) ==
    LET idx == {i \in 1..(Len(streak_days) - 1) : streak_days[i + 1] - streak_days[i] > 1}
    IN  [n \in 1..Cardinality(idx) |->
            LET i == CHOOSE x \in idx : Cardinality({y \in idx : y < x}) = n - 1
            IN  <<streak_days[i], streak_days[i + 1]>>]

\* diagnose_database lines 46-53
DiagGaps(streak_days) ==
    LET idx == {i \in 1..(Len(streak_days) - 1) : streak_days[i + 1] - streak_days[i] > 1}
    IN  [n \in 1..Cardinality(idx) |->
            LET i == CHOOSE x \in idx : Cardinality({y \in idx : y < x}) = n - 1
            IN  <<streak_days[i] + 1, streak_days[i + 1] - 1>>]

\* SELECT day FROM streaks ORDER BY day
SelectDays(d) ==
    [n \in 1..Cardinality(d.streaks) |->
        (CHOOSE s \in d.streaks :
            Cardinality({x \in d.streaks :
                            x.day < s.day \/ (x.day = s.day /\ x.id < s.id)}) = n - 1).day]

\* diagnose_database(db_file), lines 6-103
diagnose_database ==
    /\ pre' = db
    /\ pc' = "done"
    /\ ret' = LET streak_days == SelectDays(db)
                  days == {streak_days[n] : n \in 1..Len(streak_days)}
                  min_day == Min(days)
                  max_day == Max(days)
                  duplicates ==
                      SelectSeq([n \in 1..Len(streak_days) |->
                                    [day |-> streak_days[n],
                                     seen |-> \E j \in 1..(n - 1) : streak_days[j] = streak_days[n]]],
                                LAMBDA x : x.seen)
                  missing_days == (min_day..max_day) \ days
                  gaps == DiagGaps(streak_days)
                  healthy == missing_days = {} /\ duplicates = <<>>
              IN  IF streak_days = <<>>
                  THEN [op |-> "diagnose_database", status |-> "empty"]
                  ELSE [op |-> "diagnose_database", status |-> "report",
                        total |-> Len(streak_days), min_day |-> min_day, max_day |-> max_day,
                        healthy |-> healthy,
                        missing_days |-> missing_days,
                        duplicates |-> [n \in 1..Len(duplicates) |-> duplicates[n].day],
                        gaps |-> IF healthy THEN <<>> ELSE gaps,
                        orphaned_results |->
                            Cardinality({r \in db.results : NotFound(db, r.streak_day)}),
                        orphaned_users |->
                            Cardinality({u \in db.users :
                                            ~\E r \in db.results : r.user_id = u.id})]
    /\ UNCHANGED <<db, journal, now, locals, prev>>

\* get_brief_overview, lines 157-181 (the usernames as a set)
BriefOverview(d) ==
    [total_streaks |-> Cardinality(d.streaks),
     total_users |-> Cardinality(d.users),
     total_entries |-> Cardinality(d.results),
     users |-> {u.username : u \in d.users}]

get_brief_overview ==
    /\ pc = "idle"
    /\ pc' = "done"
    /\ pre' = db
    /\ ret' = [op |-> "get_brief_overview", status |-> "ok", overview |-> BriefOverview(db)]
    /\ UNCHANGED <<db, journal, now, locals, prev>>

\* lines 195-221: one row per user out of users LEFT JOIN results; COUNT(*)
\* counts the row of a user without results
UserStats(d) ==
    [username \in {u.username : u \in d.users} |->
        LET u == CHOOSE x \in d.users : x.username = username
            rows == {r \in d.results : r.user_id = u.id}
        IN  [games_played |-> IF rows = {} THEN 1 ELSE Cardinality(rows),
             scores |-> [c \in ScoreChars |-> Cardinality({r \in rows : r.score = c})],
             wins |-> Cardinality({r \in rows : r.is_winner})]]

\* lines 224-233: the ten largest days with the number of their results
RecentStreaks(d) ==
    LET days == {x.day : x \in d.streaks}
    IN  [day \in {x \in days : Cardinality({y \in days : y > x}) < 10} |->
            Cardinality({r \in d.results : r.streak_day = day})]

\* get_detailed_overview, lines 183-244
get_detailed_overview ==
    /\ pc = "idle"
    /\ pc' = "done"
    /\ pre' = db
    /\ ret' = [op |-> "get_detailed_overview", status |-> "ok",
               overview |-> BriefOverview(db),
               streak_days |-> SelectDays(db),
               user_stats |-> UserStats(db),
               recent_streaks |-> RecentStreaks(db)]
    /\ UNCHANGED <<db, journal, now, locals, prev>>

CallsNext ==
    \/ \E message \in CallMessages : add_streak_data_call(message)
    \/ \E day \in CallDays : delete_day_call(day)
    \/ diagnose_database

SpecCalls == Init /\ [][CallsNext]_vars

\* the orders in which n results can be applied
Orders(n) == {p \in [1..n -> 1..n] : \A i, j \in 1..n : p[i] = p[j] => i = j}
Reordered(results, p) == [k \in 1..Len(results) |-> results[p[k]]]

NoUsernameTwice(results) ==
    \A i, j \in 1..Len(results) : results[i].username = results[j].username => i = j

\* C19 (as claimed): for a message that names no username twice, applying
\* its results in any order leaves the same Users, StreakDays and Results
\* rows as the order of the message.
C19_OrderSameRows ==
    (AddOk /\ NoUsernameTwice(parse_message(ret.message).results)) =>
        LET parsed_data == parse_message(ret.message)
        IN  \A p \in Orders(Len(parsed_data.results)) :
                Ingest(pre, [parsed_data EXCEPT !.results = Reordered(@, p)], now) = db

\* C19 (amended): for a message that names no username twice, applying its
\* results in any order leaves the same usernames, the same StreakDays and
\* the same (day, username, score, winner) Results as the order of the
\* message; the ids of the rows it creates follow the order.
C19_OrderSameContent ==
    (AddOk /\ NoUsernameTwice(parse_message(ret.message).results)) =>
        LET parsed_data == parse_message(ret.message)
        IN  \A p \in Orders(Len(parsed_data.results)) :
                LET other == Ingest(pre, [parsed_data EXCEPT !.results = Reordered(@, p)], now)
                IN  /\ StoreView(other) = StoreView(db)
                    /\ other.seq = db.seq
                    /\ {u \in other.users : u \in pre.users} = {u \in db.users : u \in pre.users}

\* a message of three users in two blocks was ingested into a store that
\* knew two of them and held Results of the day, and one User was created
C19_Witness ==
    /\ AddOk
    /\ Len(ret.users_in_day) = 3 /\ NoUsernameTwice(parse_message(ret.message).results)
    /\ Cardinality(pre.users) = 2 /\ Cardinality(db.users) = 3
    /\ \E r \in pre.results : r.streak_day = ret.day
    /\ \E r \in db.results : r.streak_day # ret.day

DiagDone == pc = "done" /\ ret.op = "diagnose_database"

\* C20: on a store with at least one StreakDay the diagnosis reports as
\* missing exactly the days between the smallest and the largest stored
\* day that have no row, reports no duplicate day, and its gap intervals
\* cover exactly the missing days.
C20_DiagnosisOfDays ==
    (DiagDone /\ db.streaks # {}) =>
        LET stored == {s.day : s \in db.streaks}
        IN  /\ ret.status = "report"
            /\ ret.missing_days
                 = {d \in 0..9 : /\ d \notin stored
                                 /\ \E a, b \in stored : a <= d /\ d <= b}
            /\ ret.duplicates = <<>>
            /\ UNION {ret.gaps[n][1]..ret.gaps[n][2] : n \in 1..Len(ret.gaps)} = ret.missing_days
            /\ \A n \in 1..Len(ret.gaps) : ret.gaps[n][1] <= ret.gaps[n][2]

\* the days 1, 4 and 7 were diagnosed: two gaps of two days each
C20_Witness ==
    /\ DiagDone
    /\ {s.day : s \in db.streaks} = {1, 4, 7}
    /\ ret.missing_days = {2, 3, 5, 6}
    /\ ret.gaps = <<<<2, 3>>, <<5, 6>>>>

PlotDone == pc = "done" /\ ret.op = "get_plot_data"
OverTimeDone == pc = "done" /\ ret.op = "get_user_data_over_time"

\* the days on which some user has a Result, and the users with a Result
DaysPlayed(d) == {r.day : r \in ResultView(d)}
Players(d) == {r.username : r \in ResultView(d)}
\* the value of a user on a day: the rank of the score, or nothing
ValueOn(d, username, day) ==
    LET mine == {r \in ResultView(d) : r.username = username /\ r.day = day}
    IN  IF mine = {} THEN <<>> ELSE <<RankOf((CHOOSE r \in mine : TRUE).score)>>

\* a user's series has one entry for each of the days, in ascending order
IsSeriesOver(data, d, username, days) ==
    /\ Len(data) = Cardinality(days)
    /\ \A k \in 1..Len(data) : data[k].x \in days /\ data[k].y = ValueOn(d, username, data[k].x)
    /\ \A j, k \in 1..Len(data) : j < k => data[j].x < data[k].x

\* C21 (as claimed): every user with a Result gets one entry for every day
\* from the first to the last day played, in ascending order, with the
\* numeric score of the day or null.
C21_SeriesOverDayRange ==
    /\ PlotDone =>
          /\ DOMAIN ret.users = Players(db)
          /\ \A u \in DOMAIN ret.users :
                IsSeriesOver(ret.users[u], db, u, Min(DaysPlayed(db))..Max(DaysPlayed(db)))
    /\ OverTimeDone =>
          /\ ret.all_users = Players(db)
          /\ ret.all_users # {} =>
                DOMAIN ret.day_data = Min(DaysPlayed(db))..Max(DaysPlayed(db))

\* C21 (amended): every user with a Result gets one entry for every day on
\* which some user has a Result, in ascending order, with the numeric score
\* of the day or null; a day without any Result, between two such days or
\* with a StreakDay row of its own, has no entry.
C21_SeriesOverDaysPlayed ==
    /\ PlotDone =>
          /\ DOMAIN ret.users = Players(db)
          /\ ret.days = SortedDays(DaysPlayed(db))
          /\ \A u \in DOMAIN ret.users : IsSeriesOver(ret.users[u], db, u, DaysPlayed(db))
    /\ OverTimeDone =>
          /\ ret.all_users = Players(db)
          /\ ret.sorted_days = SortedDays(DaysPlayed(db))
          /\ DOMAIN ret.day_data = DaysPlayed(db)
          /\ \A day \in DOMAIN ret.day_data :
                /\ DOMAIN ret.day_data[day] = Players(db)
                /\ \A u \in Players(db) : ret.day_data[day][u] = ValueOn(db, u, day)

\* the series of two users were exported from a store with the days 1, 2, 8
\* played, a day 9 without Results, a failed game, and a day one of the
\* users did not play
C21_Witness ==
    /\ PlotDone
    /\ DaysPlayed(db) = {1, 2, 8}
    /\ \E s \in db.streaks : s.day = 9
    /\ Cardinality(DOMAIN ret.users) = 2
    /\ \E u \in DOMAIN ret.users : \E k \in 1..3 : ret.users[u][k].y = <<>>
    /\ \E u \in DOMAIN ret.users : \E k \in 1..3 : ret.users[u][k].y = <<7>>

ClearDone == pc = "done" /\ ret.op = "clear_database"

\* C22: a clear_database that returns leaves no Result, no StreakDay and
\* no User; one that raises, at whichever of its statements, leaves the
\* store exactly as before the call; either way no transaction stays open.
C22_ClearAllOrNothing ==
    /\ (ClearDone /\ ret.status = "ok") =>
          /\ db.results = {} /\ db.streaks = {} /\ db.users = {}
    /\ (ClearDone /\ ret.status = "error") => db = pre
    /\ ClearDone => ~journal.open

\* the delete of the users failed after the results and the streaks of a
\* store with data were deleted
C22_Witness ==
    /\ ClearDone /\ ret.status = "error" /\ ret.at = "clear_users"
    /\ db.results # {} /\ db.streaks # {} /\ db.users # {}

(* ---------------------- the readers on their own ---------------------- *)
\* stores the writers leave behind: the new store, the store after one
\* message, after one message and the deletion of its day, and after two
\* messages
ReadStores ==
    LET marked == {m \in CallMessages : streak_match(m)}
        one == {Ingest(EmptyDb, parse_message(m), 0) : m \in marked}
    IN  {EmptyDb}
        \cup one
        \cup {DeleteStreak(DeleteResultsOfDay(d, s.day), s.day) :
                 <<d, s>> \in {x \in one \X UNION {d.streaks : d \in one} : x[2] \in x[1].streaks}}
        \cup {Ingest(d, parse_message(m), 0) : d \in one, m \in marked}

ReadsInit ==
    /\ db \in ReadStores
    /\ journal = NoTx
    /\ now = 0
    /\ pc = "idle"
    /\ locals = NoLocals
    /\ ret = NoRet
    /\ pre = EmptyDb
    /\ prev = NoPrev

\* diagnose_database from the prompt of its caller
diagnose ==
    /\ pc = "idle"
    /\ diagnose_database

ReadsNext ==
    \/ get_brief_overview
    \/ get_detailed_overview
    \/ \E day \in CallDays : get_day_details(day)
    \/ get_all_time_stats
    \/ get_last_week_stats
    \/ get_plot_data
    \/ diagnose

SpecReads == ReadsInit /\ [][ReadsNext]_vars

ReadOps ==
    {"get_brief_overview", "get_detailed_overview", "get_day_details", "get_all_time_stats",
     "get_last_week_stats", "get_plot_data", "diagnose_database"}
ReadDone == pc = "done" /\ ret.op \in ReadOps

\* what a reader returned is empty or zero throughout
EmptyAnswer(r) ==
    CASE r.op = "get_brief_overview" ->
            r.overview = [total_streaks |-> 0, total_users |-> 0, total_entries |-> 0, users |-> {}]
      [] r.op = "get_detailed_overview" ->
            /\ r.overview = [total_streaks |-> 0, total_users |-> 0, total_entries |-> 0,
                             users |-> {}]
            /\ r.streak_days = <<>>
            /\ DOMAIN r.user_stats = {}
            /\ DOMAIN r.recent_streaks = {}
      [] r.op = "get_day_details" -> r.status = "None"
      [] r.op \in {"get_all_time_stats", "get_last_week_stats"} -> DOMAIN r.user_data = {}
      [] r.op = "get_plot_data" -> r.days = <<>> /\ DOMAIN r.users = {}
      [] r.op = "diagnose_database" -> r.status = "empty"

\* C23 (as claimed): a reader leaves the store as it was, and on a store
\* without StreakDay it does not raise and what it returns is empty or zero.
C23_ReadersPureAndEmptyTolerant ==
    ReadDone =>
        /\ db = pre
        /\ ~journal.open
        /\ pre.streaks = {} => (ret.status # "error" /\ EmptyAnswer(ret))

(* ------------------------- batch import (main) ------------------------ *)
DONE == "done"
DONE_CAP == "Done"

\* str.lower() on the lexemes of the input lines
lower(message) ==
    [k \in 1..Len(message) |->
        CASE message[k] = DONE_CAP -> DONE
          [] message[k] = "A" -> "a"
          [] message[k] = "B" -> "b"
          [] message[k] = "X" -> "x"
          [] OTHER -> message[k]]

\* the lines a user may enter: messages for the days 1, 0 and 2, a text
\* without day marker, a blank line, and the sentinel in two spellings
BatchLines ==
    { Header("1") \o <<" ", "3", SIX, " ", "@", "A", " ", "@", "B">>,
      Header("0") \o <<" ", "X", SIX, " ", "@", "A">>,
      Header("2"),
      <<"3", SIX, " ", "@", "A">>,
      <<" ">>,
      <<" ", DONE_CAP, " ">>,
      <<DONE>> }

\* the longest standard input
MaxLines == 3

RECURSIVE Streams(_)
Streams(n) ==
    IF n = 0 THEN {<<>>}
    ELSE Streams(n - 1) \cup {Append(s, l) : s \in {x \in Streams(n - 1) : Len(x) = n - 1},
                                             l \in BatchLines}

\* main up to line 332: the tracker is connected, import_count = 0; the
\* standard input holds a finite sequence of lines
BatchInit ==
    /\ db = EmptyDb
    /\ journal = NoTx
    /\ now = 0
    /\ pc = "input"
    /\ locals \in {[stream |-> s, pos |-> 0, import_count |-> 0, message |-> <<>>, log |-> <<>>] :
                      s \in Streams(MaxLines)}
    /\ ret = NoRet
    /\ pre = EmptyDb
    /\ prev = NoPrev

\* lines 336-343: input() returns the next line, or raises EOFError when
\* the input is exhausted; 'done' breaks, an empty line continues
main_input ==
    /\ pc = "input"
    /\ IF locals.pos >= Len(locals.stream)
       THEN /\ pc' = "except"
            /\ UNCHANGED locals
       ELSE LET message == strip(locals.stream[locals.pos + 1])
            IN  /\ locals' = [locals EXCEPT !.pos = @ + 1, !.message = message]
                /\ pc' = IF lower(message) = <<DONE>> THEN "complete"
                         ELSE IF message = <<>> THEN "input"
                         ELSE "add"
    /\ UNCHANGED <<db, journal, now, ret, pre, prev>>

\* a loop that counts every message it hands to add_streak_data
main_add_counts_all ==
    /\ pc = "add"
    /\ pre' = db
    /\ LET message == locals.message
           call(fault) ==
               LET status == IF ~streak_match(message) THEN "ValueError"
                             ELSE IF fault = "none" THEN "ok" ELSE "error"
               IN  /\ pc' = IF status = "ok" THEN "input" ELSE "except"
                   /\ ret' = [op |-> "add_streak_data", status |-> status, message |-> message]
                   /\ locals' = [locals EXCEPT
                                    !.import_count = @ + 1,
                                    !.log = Append(@, [pos |-> locals.pos, status |-> status])]
                   /\ db' = IF streak_match(message) /\ fault # "before_commit"
                            THEN Ingest(db, parse_message(message), now) ELSE db
       IN  \/ call("before_commit")
           \/ call("after_commit")
           \/ call("none")
    /\ UNCHANGED <<journal, now, prev>>

\* lines 346-355: add_streak_data(message) from call to return or raise (a
\* statement may fail before the commit, or after it: line 142), then
\* import_count += 1 and the prints
main_add ==
    /\ pc = "add"
    /\ pre' = db
    /\ LET message == locals.message
           call(fault) ==
               LET status == IF ~streak_match(message) THEN "ValueError"
                             ELSE IF fault = "none" THEN "ok" ELSE "error"
               IN  /\ pc' = IF status = "ok" THEN "input" ELSE "except"
                   /\ ret' = [op |-> "add_streak_data", status |-> status, message |-> message]
                   /\ locals' = [locals EXCEPT
                                    !.import_count = IF status = "ok" THEN @ + 1 ELSE @,
                                    !.log = Append(@, [pos |-> locals.pos, status |-> status])]
                   /\ db' = IF streak_match(message) /\ fault # "before_commit"
                            THEN Ingest(db, parse_message(message), now) ELSE db
       IN  \/ call("before_commit")
           \/ call("after_commit")
           \/ call("none")
    /\ UNCHANGED <<journal, now, prev>>

\* lines 357-362: the handlers print and the loop goes on
main_except ==
    /\ pc = "except"
    /\ pc' = "input"
    /\ UNCHANGED <<db, journal, now, locals, ret, pre, prev>>

BatchNext ==
    \/ main_input
    \/ main_add
    \/ main_except

SpecBatch == BatchInit /\ [][BatchNext]_vars
\* the interpreter keeps running the loop
SpecBatchFair == SpecBatch /\ WF_vars(BatchNext)

\* C24 (as claimed): every StreakDay row has a day number of at least 1.
C24_DaysPositive == \A s \in db.streaks : s.day >= 1

\* the lines that end the batch and the lines that are skipped
SentinelLines == {<<DONE>>, <<" ", DONE_CAP, " ">>}
BlankLines == {<<" ">>}

\* C25: the batch hands the lines that are neither blank nor the sentinel
\* to add_streak_data once each and in the order entered, whatever became
\* of the lines before; import_count is the number of calls that returned;
\* nothing is read after the sentinel, and the loop is left exactly when
\* the sentinel has been read.
C25_BatchInOrder ==
    LET stream == locals.stream
        log == locals.log
        handed == {k \in 1..locals.pos : stream[k] \notin SentinelLines \cup BlankLines}
                      \ (IF pc = "add" THEN {locals.pos} ELSE {})
    IN  /\ {log[i].pos : i \in 1..Len(log)} = handed
        /\ \A i, j \in 1..Len(log) : i < j => log[i].pos < log[j].pos
        /\ locals.import_count = Cardinality({i \in 1..Len(log) : log[i].status = "ok"})
        /\ \A k \in 1..(locals.pos - 1) : stream[k] \notin SentinelLines
        /\ (pc = "complete") <=> (locals.pos >= 1 /\ stream[locals.pos] \in SentinelLines)

\* a text without day marker was rejected, the message after it was
\* ingested and counted, and the sentinel ended the batch
C25_Witness ==
    /\ pc = "complete"
    /\ Len(locals.log) = 2
    /\ locals.log[1].status = "ValueError" /\ locals.log[2].status = "ok"
    /\ locals.import_count = 1
    /\ db.results # {}

\* C29 (as claimed): on every finite input the batch loop reaches its final
\* report.
C29_BatchTerminates == <>(pc = "complete")

\* the text that follows the first day marker
AfterMarker(message) ==
    SubSeq(message, Min(StreakMarks(message)) + 1, Len(message))

\* C26 (as claimed): the results of a message are those of the text after
\* its first day marker; a score block in front of the marker contributes
\* none.
C26_OnlyAfterMarker ==
    ParseOk => ret.results = LineResults(score_lines(AfterMarker(ret.message), 1), 1)

(* ------------------- what a call changes and returns ------------------ *)
\* C27: a successful delete_day(d) removes the StreakDay row of d and the
\* Results of d and nothing else: the other StreakDays, the Results of the
\* other days, the Users and the id counters are as before the call; a
\* call whose typed confirmation is not 'DELETE' changes nothing.
C27_DeleteDayFrame ==
    /\ (DelDone /\ ret.status = TRUE) =>
          /\ \E s \in pre.streaks : s.day = ret.day
          /\ db.streaks = {s \in pre.streaks : s.day # ret.day}
          /\ db.results = {r \in pre.results : r.streak_day # ret.day}
          /\ db.users = pre.users
          /\ db.seq = pre.seq
    /\ (DelDone /\ ret.at = "cancelled") => (ret.status = FALSE /\ db = pre)

\* a day with Results was deleted while another day with Results is stored
C27_Witness ==
    /\ DelDone /\ ret.status = TRUE
    /\ \E r \in pre.results : r.streak_day = ret.day
    /\ \E s \in db.streaks : s.day # ret.day
    /\ db.results # {}

\* the day markers written in lower case
LowerMarks(message) == {j \in AnyCaseMarks(message) : message[j] = DAY_STREAK}

\* what add_streak_data does with a message that holds no username
StoresDayOnly ==
    (AddOk /\ Len(ret.users_in_day) = 0) =>
        /\ \E s \in db.streaks : s.day = ret.day
        /\ {s \in db.streaks : s.day # ret.day} = {s \in pre.streaks : s.day # ret.day}
        /\ (\E s \in pre.streaks : s.day = ret.day) => db.streaks = pre.streaks
        /\ (~\E s \in pre.streaks : s.day = ret.day) =>
              ~\E r \in db.results : r.streak_day = ret.day
        /\ db.users = pre.users
        /\ db.results = pre.results

\* C28 (as claimed): no message with a day marker, in whatever letter case,
\* is rejected with the parse error; and a message with a day marker and no
\* username creates the StreakDay row if absent, with zero Results, and
\* changes no User and no Result.
C28_MarkerNeverRaises ==
    /\ (AddDone /\ AnyCaseMarks(ret.message) # {}) => ret.status # "ValueError"
    /\ StoresDayOnly

\* C28 (amended): no message with a day marker written in lower case is
\* rejected with the parse error; and a message with such a marker and no
\* username creates the StreakDay row if absent, with zero Results, and
\* changes no User and no Result.
C28_LowerMarkerNeverRaises ==
    /\ (AddDone /\ LowerMarks(ret.message) # {}) => ret.status # "ValueError"
    /\ StoresDayOnly

\* a day marker alone was ingested as a new day into a store with Users
\* and Results
C28_Witness ==
    /\ AddOk /\ Len(ret.users_in_day) = 0
    /\ ~\E s \in pre.streaks : s.day = ret.day
    /\ pre.users # {} /\ pre.results # {}

\* the usernames of the message of the finished call
NamesOfCall == {ret.users_in_day[k] : k \in 1..Len(ret.users_in_day)}
\* the Results the day held for other users when the call started
OthersBefore ==
    {r \in pre.results :
        /\ r.streak_day = ret.day
        /\ \A u \in pre.users : u.id = r.user_id => u.username \notin NamesOfCall}

\* C30: results_added is the number of Results the day holds after the
\* commit, those of earlier calls included; it is the number of distinct
\* usernames of the message exactly when the day held no Results of other
\* users before the call.
C30_ResultsAddedCountsDay ==
    AddOk =>
        /\ ret.results_added = Cardinality({r \in db.results : r.streak_day = ret.day})
        /\ (ret.results_added = Cardinality(NamesOfCall)) <=> (OthersBefore = {})

\* a day marker alone was ingested for a day that holds a Result:
\* results_added is 1 and the message has no username
C30_Witness ==
    /\ AddOk
    /\ Len(ret.users_in_day) = 0
    /\ ret.results_added >= 1
    /\ OthersBefore # {}

====
